---------------------------- MODULE Spec2Model ----------------------------
(***************************************************************************)
(* Authentication and session subsystem of the 3D-print management web     *)
(* application (src/app.py): the OAuth2 authorization-code callback, the   *)
(* check-then-create provisioning of users, the cookie-backed session and  *)
(* the login_required gate in front of every protected route.              *)
(*                                                                         *)
(* The callback handler is split at every access to state shared between   *)
(* requests (the module-level oauth client, the user table), so that two   *)
(* callbacks served by two threads interleave as they do in the program.   *)
(***************************************************************************)
EXTENDS Naturals, FiniteSets, Sequences, TLC

(* ------------------------------ universe ------------------------------ *)

\* Browser contexts (cookie jars) that talk to the application.
Ctx == {"c1", "c2"}

\* Subject identifiers the identity provider knows.
Subs == {"u1", "u2"}

\* Python's None, and the value of a local that is not assigned yet.
None == "None"

\* Authorization codes a callback request can carry: one the provider issued
\* for a subject, or one it rejects.
CodeOf(sub) == "code_" \o sub
BadCode == "code_bad"
Codes == {CodeOf(s) : s \in Subs} \cup {BadCode}

\* The bearer token the provider issues for a subject, and the error body of
\* the token endpoint.
TokenOf(sub) == "tok_" \o sub
TokenError == "invalid_grant"
SubjectOfToken(tok) == CHOOSE s \in Subs : TokenOf(s) = tok

\* JSON values of the email_verified claim: the booleans, the string "true",
\* and the key being absent from the document.
JTrue == "json:true"
JFalse == "json:false"
StrTrue == "str:true"
Absent == "absent"
EmailVerifiedValues == {JTrue, JFalse, StrTrue, Absent}

\* The profile claims (name, email, picture) a subject can present; they may
\* change between two logins of the same subject, and a claim may be missing.
Profiles ==
    { [name |-> "Ada", email |-> "a@b.com", picture |-> "http://x/p.png"],
      [name |-> "Ada Lovelace", email |-> "ada@b.com", picture |-> "http://x/p2.png"],
      [name |-> "Ada", email |-> "a@b.com", picture |-> Absent] }

\* Profiles in which a claim is present but the empty string.
EmptyClaimProfiles ==
    { [name |-> "", email |-> "a@b.com", picture |-> "http://x/p.png"] }

\* The userinfo responses: a claims document, a JSON error object without
\* claims, or a body that is not JSON.
NoResponse ==
    [kind |-> "none", sub |-> None, email_verified |-> Absent,
     name |-> None, email |-> None, picture |-> None]
ClaimsDoc(sub, ev, p) ==
    [kind |-> "claims", sub |-> sub, email_verified |-> ev,
     name |-> p.name, email |-> p.email, picture |-> p.picture]
ErrorJson == [NoResponse EXCEPT !.kind = "error_json"]
NotJson == [NoResponse EXCEPT !.kind = "not_json"]
UserinfoResponses(sub) ==
    {ClaimsDoc(sub, ev, p) : ev \in EmailVerifiedValues, p \in Profiles}
        \cup {ErrorJson, NotJson}

\* Verified claims documents with an empty claim.
EmptyClaimResponses(sub) == {ClaimsDoc(sub, JTrue, p) : p \in EmptyClaimProfiles}


(* ------------------------- python and json values --------------------- *)

\* dict.get(key): the value, or None when the key is absent.
DictGet(value) == IF value = Absent THEN None ELSE value

\* Python truthiness of a JSON value: None, false and "" are falsy, every
\* other value (the string "true" too) is truthy.
Truthy(value) == value \notin {None, JFalse, ""}

\* dict[key] raises KeyError when the key is absent.
HasKey(value) == value # Absent

(* ------------------------------- state -------------------------------- *)

VARIABLES
    store,      \* the user table: a set of rows [id, name, email, profile_pic]
    client,     \* the module-level WebApplicationClient, shared by all requests
    cookie,     \* cookie[c]: the _user_id held in context c's session cookie
    req,        \* req[c]: the /login/callback request of context c in flight
    captured,   \* a copy of a session cookie kept outside its browser context
    last,       \* the response of the request to a protected route handled last,
                \* NoLast once another request is being handled
    deploy,     \* the origin (scheme and host) the application is served on
    issued      \* issued[c]: the authorization redirect /login sent context c last

vars == <<store, client, cookie, req, captured, last, deploy, issued>>

\* A callback request that is not in flight.
Idle ==
    [pc |-> "idle", code |-> None, redirect_url |-> None,
     token_response |-> None,
     userinfo_response |-> NoResponse, exists |-> FALSE,
     status |-> 0, error |-> None]

NoCapture == [cred |-> None, ctx |-> None, logged_out |-> FALSE]

\* ctx: the requesting browser context (None for a presented copy); sess: the
\* _user_id of the session presented; user: the id current_user resolved to;
\* ran: whether the view function ran; stale: whether the session presented is
\* a copy whose original has been logged out since.
NoLast ==
    [ctx |-> None, route |-> None, sess |-> None, user |-> None,
     status |-> 0, ran |-> FALSE, stale |-> FALSE]

(* ---------------------------- identity store -------------------------- *)

\* User.get(user_id): the row with that id, or nothing (a set of 0 or 1 rows,
\* as long as the id is a key of the table).
User_get(st, user_id) == {row \in st : row.id = user_id}

\* The id column is the table's primary key: inserting a second row with an
\* id already present fails.
User_create_conflict(st, id_) == User_get(st, id_) # {}

\* User.create(id_, name, email, profile_pic): insert the row.
User_create(st, id_, name, email, profile_pic) ==
    st \cup {[id |-> id_, name |-> name, email |-> email,
              profile_pic |-> profile_pic]}

\* User(id_=..., name=..., email=..., profile_pic=...): the in-memory object.
User(id_, name, email, profile_pic) ==
    [id |-> id_, name |-> name, email |-> email, profile_pic |-> profile_pic]

(* ---------------------------- session manager ------------------------- *)

\* A loader that builds a user for whatever id the session holds, without
\* looking it up.
load_user_unchecked(st, user_id) == {User(user_id, None, None, None)}

\* The user_loader callback: whatever User.get returns for the id.
load_user(st, user_id) == User_get(st, user_id)

\* current_user of a request whose session holds _user_id = sess: anonymous
\* (no principal) without an id or when the loader returns None.
current_user(st, sess) == IF sess = None THEN {} ELSE load_user(st, sess)

\* A gate that lets every request through.
login_required_open(principal) == TRUE

\* login_required lets the view run only for an authenticated current_user.
login_required(principal) == principal # {}

\* The unauthorized_handler's fixed response.
unauthorized == 403

\* logout_user(): the session no longer holds a _user_id.
logout_user(sess) == None

\* A login_user that leaves a session that already holds an id as it is.
login_user_keep(sess, user) == IF sess = None THEN user.id ELSE sess

\* login_user(user): the session holds the user's id.
login_user(sess, user) == user.id

(* --------------------------- protected routes ------------------------- *)

\* The routes decorated with login_required.
ProtectedRoutes ==
    {"logout", "form", "status", "queue", "members", "success", "failure"}

\* Submitted print forms: a link and a file name, the file name as its parts.
Forms ==
    { [link |-> "", files |-> <<>>],
      [link |-> "", files |-> <<"part", ".stl">>],
      [link |-> "", files |-> <<"notes", ".txt">>],
      [link |-> "http://l", files |-> <<>>] }

\* ext in file_name
Contains(file_name, ext) == \E i \in DOMAIN file_name : file_name[i] = ext

check_file_type_not_allowed(file_name) ==
    ~Contains(file_name, ".stl") /\ ~Contains(file_name, ".zip")

request_has_printjob(results) ==
    IF results.link = ""
    THEN IF results.files = <<>>
         THEN FALSE
         ELSE ~check_file_type_not_allowed(results.files)
    ELSE TRUE

\* The status of the response a view gives once the gate let it run:
\* redirect(...) is 302, render_template(...) is 200.
view_status(route, results) ==
    CASE route = "logout" -> 302
      [] route = "form" -> 302
      [] route = "success" -> IF request_has_printjob(results) THEN 200 ELSE 302
      [] OTHER -> 200

\* A logout view that leaves the session as it is.
view_session_keep(route, sess) == sess

\* The session after the view ran: only logout changes it.
view_session(route, sess) ==
    IF route = "logout" THEN logout_user(sess) ELSE sess

\* A request to a protected route with session sess: the gate's rejection,
\* or the view's response.
protected_response(st, from, sess, route, results, isStale) ==
    LET principal == current_user(st, sess) IN
    IF login_required(principal)
    THEN [ctx |-> from, route |-> route, sess |-> sess,
          user |-> IF principal = {} THEN None ELSE sess,
          status |-> view_status(route, results), ran |-> TRUE,
          stale |-> isStale]
    ELSE [ctx |-> from, route |-> route, sess |-> sess,
          user |-> None, status |-> unauthorized, ran |-> FALSE,
          stale |-> isStale]

protected_session(st, sess, route) ==
    IF login_required(current_user(st, sess))
    THEN view_session(route, sess)
    ELSE sess

\* A browser context requests a protected route with its own cookie.  A
\* context has one request in flight at a time.
Protected(c, route, results) ==
    /\ req[c].pc = "idle"
    /\ last' = protected_response(store, c, cookie[c], route, results, FALSE)
    /\ cookie' = [cookie EXCEPT ![c] = protected_session(store, cookie[c], route)]
    /\ captured' =
         IF /\ route = "logout"
            /\ captured.ctx = c
            /\ protected_session(store, cookie[c], route) # cookie[c]
         THEN [captured EXCEPT !.logged_out = TRUE]
         ELSE captured
    /\ UNCHANGED <<store, client, req, deploy, issued>>

\* The session cookie is held by the client: a copy of it can be kept.
Capture(c) ==
    /\ cookie[c] # None
    /\ captured' = [cred |-> cookie[c], ctx |-> c, logged_out |-> FALSE]
    /\ UNCHANGED <<store, client, cookie, req, last, deploy, issued>>

\* A request to a protected route that presents the kept copy.
Replay(route, results) ==
    /\ captured.cred # None
    /\ last' = protected_response(store, None, captured.cred, route, results,
                                  captured.logged_out)
    /\ UNCHANGED <<store, client, cookie, req, captured, deploy, issued>>

(* ----------------------------- urls and /login ------------------------ *)

\* Origins the application can be deployed on.
DefaultOrigin == "https://print.example"
Origins == {DefaultOrigin, "https://localhost:5000"}

\* The URL of a request: origin, path and query string.
Url(origin, path, query) == [origin |-> origin, path |-> path, query |-> query]

\* request.base_url: the URL without its query string.
base_url(u) == u.origin \o u.path

\* request.url: the whole URL.
full_url(u) == IF u.query = "" THEN base_url(u) ELSE base_url(u) \o "?" \o u.query

\* Query strings a /login request can carry.
LoginQueries == {"", "next=queue"}

\* GOOGLE_CLIENT_ID
GOOGLE_CLIENT_ID == "client-id"

\* Discovery documents the provider can publish, by their
\* authorization_endpoint, and a failed discovery fetch.
DiscoveryFailed == "discovery_failed"
AuthorizationEndpoints ==
    {"https://accounts.example/o/oauth2/v2/auth", "https://accounts.example/auth"}

\* No authorization redirect.
NoRedirect ==
    [authorization_endpoint |-> None, uri |-> None, response_type |-> None,
     client_id |-> None, redirect_uri |-> None, scope |-> <<>>]

\* client.prepare_request_uri(uri, redirect_uri=..., scope=...): the grant URI
\* as the endpoint and its query parameters.
prepare_request_uri(uri, redirect_uri, scope) ==
    [uri |-> uri, response_type |-> "code", client_id |-> GOOGLE_CLIENT_ID,
     redirect_uri |-> redirect_uri, scope |-> scope]

\* A redirect_uri built from request.url, which keeps the query string.
login_redirect_uri_full(u) == full_url(u) \o "/callback"

\* redirect_uri=request.base_url + "/callback"
login_redirect_uri(u) == base_url(u) \o "/callback"

\* A /login that asks for the openid scope only.
login_request_uri_openid_only(authorization_endpoint, u) ==
    prepare_request_uri(authorization_endpoint, login_redirect_uri(u),
                        <<"openid">>)

\* The request_uri /login redirects to, for the authorization_endpoint of the
\* discovery document and the URL of the /login request.
login_request_uri(authorization_endpoint, u) ==
    prepare_request_uri(authorization_endpoint, login_redirect_uri(u),
                        <<"openid", "email", "profile">>)

\* A /login that drops the session before it redirects.
login_session_cleared(sess) == None

\* /login does not touch the session.
login_session(sess) == sess

\* GET /login?query by context c, the discovery fetch giving cfg: the redirect
\* to the provider, or the exception's 500 when the fetch failed.  issued[c]
\* keeps the redirect together with the authorization_endpoint of the document
\* it was built from.
login(c, query, cfg) ==
    /\ req[c].pc = "idle"
    /\ LET u == Url(deploy, "/login", query) IN
       IF cfg = DiscoveryFailed
       THEN /\ last' = [NoLast EXCEPT !.ctx = c, !.route = "login",
                                      !.sess = cookie[c], !.status = 500]
            /\ UNCHANGED issued
       ELSE /\ last' = [NoLast EXCEPT !.ctx = c, !.route = "login",
                                      !.sess = cookie[c], !.status = 302]
            /\ issued' = [issued EXCEPT ![c] =
                 [authorization_endpoint |-> cfg] @@ login_request_uri(cfg, u)]
    /\ cookie' = [cookie EXCEPT ![c] = login_session(@)]
    /\ UNCHANGED <<store, client, req, captured, deploy>>

(* ------------------------------ /login/callback ----------------------- *)

\* The URL of a callback request carrying a code.
callback_url(origin, code) == Url(origin, "/login/callback", "code=" \o code)

\* A token request that sends request.url as its redirect URL.
token_redirect_url_full(u) == full_url(u)

\* redirect_url=request.base_url
token_redirect_url(u) == base_url(u)

\* An authorization response accepted only in a context /login redirected.
authorization_response_accepted_bound(redirect) == redirect # NoRedirect

\* prepare_token_request(token_endpoint, authorization_response=request.url,
\* ...) is given no state: the response is accepted whatever redirect the
\* context was sent, or none.
authorization_response_accepted(redirect) == TRUE

\* The token endpoint's answer to a code: the bearer token of the subject the
\* code was issued for, or an error body.
token_endpoint(code) ==
    IF code = BadCode
    THEN TokenError
    ELSE TokenOf(CHOOSE s \in Subs : CodeOf(s) = code)

\* A check that the email_verified key is present, whatever its value.
email_is_verified_present(doc) == HasKey(doc.email_verified)

\* if userinfo_response.json().get("email_verified"):
email_is_verified(doc) == Truthy(DictGet(doc.email_verified))

\* The four subscripts ["sub"], ["email"], ["picture"], ["name"].
claims_present(doc) ==
    /\ HasKey(doc.sub)
    /\ HasKey(doc.email)
    /\ HasKey(doc.picture)
    /\ HasKey(doc.name)

\* user = User(id_=unique_id, name=users_name, email=users_email,
\*             profile_pic=picture)
user_of_claims(doc) == User(doc.sub, doc.name, doc.email, doc.picture)

\* A create that replaces the rows holding the same email.
provision_replace_same_email(st, doc) ==
    User_create({row \in st : row.email # doc.email},
                doc.sub, doc.name, doc.email, doc.picture)

\* A create call with the name and email arguments exchanged.
provision_swapped(st, doc) ==
    User_create(st, doc.sub, doc.email, doc.name, doc.picture)

\* User.create(unique_id, users_name, users_email, picture)
provision(st, doc) == User_create(st, doc.sub, doc.name, doc.email, doc.picture)

\* A check that takes every user for an existing one.
user_exists_always(st, doc) == TRUE

\* if not User.get(unique_id):
user_exists(st, doc) == User_get(st, doc.sub) # {}

\* A handler that logs the subject in before it looks at email_verified.
session_after_verify_login_first(sess, doc) ==
    IF doc.kind = "claims" /\ HasKey(doc.sub) THEN doc.sub ELSE sess

\* The session of a request that leaves the handler at the email_verified
\* branch: nothing has written to it.
session_after_verify(sess, doc) == sess

\* The request ends: its response status and, for a failure, what failed.
finish(r, status, error) ==
    [r EXCEPT !.pc = "done", !.status = status, !.error = error]

\* code = request.args.get("code")
callback_begin(c, code) ==
    /\ req[c].pc = "idle"
    /\ req' = [req EXCEPT ![c] = [Idle EXCEPT !.pc = "discovery", !.code = code]]
    /\ last' = NoLast
    /\ UNCHANGED <<store, client, cookie, captured, deploy, issued>>

\* google_provider_cfg = get_google_provider_cfg(): the fetch can fail, and
\* the exception ends the request.
callback_discovery(c, ok) ==
    /\ req[c].pc = "discovery"
    /\ req' = [req EXCEPT ![c] =
                 IF ok THEN [@ EXCEPT !.pc = "token"]
                 ELSE finish(@, 500, "DiscoveryError")]
    /\ UNCHANGED <<store, client, cookie, captured, last, deploy, issued>>

\* prepare_token_request(...) and requests.post(...): the code goes to the
\* token endpoint.
callback_token(c) ==
    /\ req[c].pc = "token"
    /\ req' = [req EXCEPT ![c] =
                 IF ~authorization_response_accepted(issued[c])
                 THEN finish(@, 500, "MismatchingStateError")
                 ELSE [@ EXCEPT !.pc = "parse",
                                !.redirect_url =
                                    token_redirect_url(callback_url(deploy, req[c].code)),
                                !.token_response = token_endpoint(req[c].code)]]
    /\ UNCHANGED <<store, client, cookie, captured, last, deploy, issued>>

\* client.parse_request_body_response(...): raises on an error body, else
\* stores the token in the shared client.
callback_parse(c) ==
    /\ req[c].pc = "parse"
    /\ IF req[c].token_response = TokenError
       THEN /\ req' = [req EXCEPT ![c] = finish(@, 500, "TokenExchangeError")]
            /\ UNCHANGED client
       ELSE /\ client' = [client EXCEPT !.access_token = req[c].token_response]
            /\ req' = [req EXCEPT ![c] = [@ EXCEPT !.pc = "add_token"]]
    /\ UNCHANGED <<store, cookie, captured, last, deploy, issued>>

\* client.add_token(userinfo_endpoint) and requests.get(...): the request
\* bears the token the shared client holds now; the provider answers for that
\* token's subject.
callback_userinfo(c, response) ==
    /\ req[c].pc = "add_token"
    /\ client.access_token # None
    /\ response.kind = "claims" => response.sub = SubjectOfToken(client.access_token)
    /\ req' = [req EXCEPT ![c] =
                 [@ EXCEPT !.pc = "verify", !.userinfo_response = response]]
    /\ UNCHANGED <<store, client, cookie, captured, last, deploy, issued>>

\* The email_verified branch and the four subscripts.
callback_verify(c) ==
    /\ req[c].pc = "verify"
    /\ LET doc == req[c].userinfo_response IN
       /\ req' = [req EXCEPT ![c] =
                    IF doc.kind = "not_json"
                    THEN finish(@, 500, "UserInfoFetchError")
                    ELSE IF ~email_is_verified(doc)
                    THEN finish(@, 400, None)
                    ELSE IF ~claims_present(doc)
                    THEN finish(@, 500, "KeyError")
                    ELSE [@ EXCEPT !.pc = "get"]]
       /\ cookie' = [cookie EXCEPT ![c] = session_after_verify(@, doc)]
    /\ UNCHANGED <<store, client, captured, last, deploy, issued>>

\* if not User.get(unique_id):
callback_get(c) ==
    /\ req[c].pc = "get"
    /\ LET found == user_exists(store, req[c].userinfo_response) IN
       req' = [req EXCEPT ![c] =
                 [@ EXCEPT !.exists = found,
                           !.pc = IF found THEN "login_user" ELSE "create"]]
    /\ UNCHANGED <<store, client, cookie, captured, last, deploy, issued>>

\* User.create(...): the insert fails on the primary key when another request
\* inserted the id since the check, and the exception ends the request.
callback_create(c) ==
    /\ req[c].pc = "create"
    /\ LET doc == req[c].userinfo_response IN
       IF User_create_conflict(store, doc.sub)
       THEN /\ req' = [req EXCEPT ![c] = finish(@, 500, "IntegrityError")]
            /\ UNCHANGED store
       ELSE /\ store' = provision(store, doc)
            /\ req' = [req EXCEPT ![c] = [@ EXCEPT !.pc = "login_user"]]
    /\ UNCHANGED <<client, cookie, captured, last, deploy, issued>>

\* login_user(user); return redirect(url_for("index"))
callback_login(c) ==
    /\ req[c].pc = "login_user"
    /\ cookie' = [cookie EXCEPT ![c] =
                    login_user(@, user_of_claims(req[c].userinfo_response))]
    /\ req' = [req EXCEPT ![c] = finish(@, 302, None)]
    /\ UNCHANGED <<store, client, captured, last, deploy, issued>>

\* The response has been delivered.
callback_return(c) ==
    /\ req[c].pc = "done"
    /\ req' = [req EXCEPT ![c] = Idle]
    /\ UNCHANGED <<store, client, cookie, captured, last, deploy, issued>>

(* ----------------------------- specification -------------------------- *)

\* The state after start-up of a deployment on origin.
InitOn(origin) ==
    /\ store = {}
    /\ client = [access_token |-> None]
    /\ cookie = [c \in Ctx |-> None]
    /\ req = [c \in Ctx |-> Idle]
    /\ captured = NoCapture
    /\ last = NoLast
    /\ deploy = origin
    /\ issued = [c \in Ctx |-> NoRedirect]

Init == InitOn(DefaultOrigin)

\* One step of context c's callback request.
callback(c) ==
    \/ \E code \in Codes : callback_begin(c, code)
    \/ \E ok \in BOOLEAN : callback_discovery(c, ok)
    \/ callback_token(c)
    \/ callback_parse(c)
    \/ \E response \in UNION {UserinfoResponses(s) : s \in Subs} :
          callback_userinfo(c, response)
    \/ callback_verify(c)
    \/ callback_get(c)
    \/ callback_create(c)
    \/ callback_login(c)
    \/ callback_return(c)

\* No other context has a callback in flight.
Alone(c) == \A d \in Ctx \ {c} : req[d].pc = "idle"

\* The forms a request to a route can carry: only /success reads one.
FormsOf(route) == IF route = "success" THEN Forms ELSE {[link |-> "", files |-> <<>>]}

\* The application serving one request at a time, a callback running from its
\* first step to its response before the next request: the callbacks, the
\* protected routes, and session cookies copied and presented again.
Next ==
    \/ \E c \in Ctx, code \in Codes : Alone(c) /\ callback_begin(c, code)
    \/ \E c \in Ctx, ok \in BOOLEAN : Alone(c) /\ callback_discovery(c, ok)
    \/ \E c \in Ctx : Alone(c) /\ callback_token(c)
    \/ \E c \in Ctx : Alone(c) /\ callback_parse(c)
    \/ \E c \in Ctx, response \in UNION {UserinfoResponses(s) : s \in Subs} :
          Alone(c) /\ callback_userinfo(c, response)
    \/ \E c \in Ctx : Alone(c) /\ callback_verify(c)
    \/ \E c \in Ctx : Alone(c) /\ callback_get(c)
    \/ \E c \in Ctx : Alone(c) /\ callback_create(c)
    \/ \E c \in Ctx : Alone(c) /\ callback_login(c)
    \/ \E c \in Ctx : Alone(c) /\ callback_return(c)
    \/ \E c \in Ctx, route \in ProtectedRoutes : \E results \in FormsOf(route) :
          Alone(c) /\ Protected(c, route, results)
    \/ \E c \in Ctx : Capture(c)
    \/ \E route \in ProtectedRoutes : \E results \in FormsOf(route) :
          (\A c \in Ctx : req[c].pc = "idle") /\ Replay(route, results)

Spec == Init /\ [][Next]_vars

\* The process restarts on a fresh database: init_db_command() creates the
\* empty tables, the requests in flight are lost and the module-level client is
\* built anew.  The browsers keep their cookies, which stay valid under the
\* configured SECRET_KEY.
Restart ==
    /\ store' = {}
    /\ client' = [access_token |-> None]
    /\ req' = [c \in Ctx |-> Idle]
    /\ last' = NoLast
    /\ UNCHANGED <<cookie, captured, deploy, issued>>

NextReset == Next \/ Restart

SpecReset == Init /\ [][NextReset]_vars

\* The login flow from /login to the callback's response on any deployment,
\* one request at a time, with userinfo documents that hold empty claims.
InitFlow == \E origin \in Origins : InitOn(origin)

NextFlow ==
    \/ \E c \in Ctx, query \in LoginQueries,
          cfg \in AuthorizationEndpoints \cup {DiscoveryFailed} :
          Alone(c) /\ login(c, query, cfg)
    \/ \E c \in Ctx, code \in Codes : Alone(c) /\ callback_begin(c, code)
    \/ \E c \in Ctx, ok \in BOOLEAN : Alone(c) /\ callback_discovery(c, ok)
    \/ \E c \in Ctx : Alone(c) /\ callback_token(c)
    \/ \E c \in Ctx : Alone(c) /\ callback_parse(c)
    \/ \E c \in Ctx,
          response \in UNION {UserinfoResponses(s) \cup EmptyClaimResponses(s) :
                                s \in Subs} :
          Alone(c) /\ callback_userinfo(c, response)
    \/ \E c \in Ctx : Alone(c) /\ callback_verify(c)
    \/ \E c \in Ctx : Alone(c) /\ callback_get(c)
    \/ \E c \in Ctx : Alone(c) /\ callback_create(c)
    \/ \E c \in Ctx : Alone(c) /\ callback_login(c)
    \/ \E c \in Ctx : Alone(c) /\ callback_return(c)

SpecFlow == InitFlow /\ [][NextFlow]_vars

\* The application serving callbacks on several threads (the development
\* server's default): the steps of the contexts' callbacks interleave freely.
NextThreaded == \E c \in Ctx : callback(c)

SpecThreaded == Init /\ [][NextThreaded]_vars

(* ------------------------------- properties --------------------------- *)

\* The callback of context c has ended, with that response status.
Ended(c, status) == req[c].pc = "done" /\ req[c].status = status

\* The subject an authorization code was issued for.
SubjectOfCode(code) == CHOOSE s \in Subs : CodeOf(s) = code

\* The claims document the callback of context c received.
Doc(c) == req[c].userinfo_response

\* C1: a request to a protected route whose session resolves to no user is
\* answered with the fixed 403 and its view function does not run, for every
\* route; a view that ran never answers 403.
C1_AnonymousIsRejected ==
    last.status # 0 =>
        /\ last.route \in ProtectedRoutes
        /\ last.user = None => (last.status = 403 /\ ~last.ran)
        /\ last.ran => (last.status \in {200, 302} /\ last.user # None)

\* C1 witness: an anonymous context asked for /success and was rejected.
C1_Witness ==
    /\ last.route = "success"
    /\ last.ctx # None
    /\ last.sess = None
    /\ last.user = None
    /\ last.status = 403
    /\ ~last.ran

\* The email_verified claim of a claims document is false or absent.
Unverified(doc) ==
    doc.kind = "claims" /\ doc.email_verified \in {JFalse, Absent}

\* C2: a callback whose userinfo claims have email_verified false or absent
\* goes no further than the email_verified branch and ends with 400, and the
\* step that ends it leaves the user table and every session unchanged.
C2_UnverifiedEmailRejected ==
    /\ [](\A c \in Ctx :
            Unverified(Doc(c)) => (req[c].pc = "verify" \/ Ended(c, 400)))
    /\ [][\A c \in Ctx :
            (req[c].pc = "verify" /\ Unverified(Doc(c)) /\ req'[c] # req[c])
                => (store' = store /\ cookie' = cookie)]_vars

\* C2 witness: a context that was logged in, with users stored, got 400 for
\* claims with email_verified false, while the other got 400 for claims
\* without email_verified.
C2_Witness ==
    \E c \in Ctx, d \in Ctx :
        /\ Ended(c, 400) /\ Doc(c).kind = "claims"
        /\ Doc(c).email_verified = JFalse
        /\ cookie[c] # None
        /\ Ended(d, 400) /\ Doc(d).kind = "claims"
        /\ Doc(d).email_verified = Absent
        /\ store # {}

\* C3: the callback accepts email_verified only when it is the boolean true:
\* a callback that received claims with any other value ends with 400.
C3_OnlyBooleanTrueAccepted ==
    \A c \in Ctx :
        (req[c].pc = "done" /\ Doc(c).kind = "claims"
            /\ Doc(c).email_verified # JTrue) => req[c].status = 400

\* C4: concurrent callbacks with the same sub leave at most one row for it,
\* and none of them ends with the insert's conflict error.
C4_ConcurrentProvisioningAbsorbed ==
    /\ \A u \in Subs : Cardinality(User_get(store, u)) <= 1
    /\ \A c \in Ctx : ~(req[c].pc = "done" /\ req[c].error = "IntegrityError")

\* C5: a callback that ends with a session has logged in the subject that
\* its own authorization code was issued for.
C5_SessionForOwnSubject ==
    \A c \in Ctx :
        Ended(c, 302) =>
            /\ Doc(c).sub = SubjectOfCode(req[c].code)
            /\ cookie[c] = SubjectOfCode(req[c].code)

\* C6: after a logout the context's session resolves to no user, and a
\* request presenting a copy of the session cookie taken before the logout
\* resolves to no user either.
C6_LogoutInvalidatesSession ==
    /\ (last.route = "logout" /\ last.ran /\ last.ctx # None)
          => current_user(store, cookie[last.ctx]) = {}
    /\ (last.status # 0 /\ last.stale) => last.user = None

\* C7: a subject has exactly one row however often it logs in, and the user a
\* callback logs in is the stored row (the first login's values).
C7_SecondLoginUsesStoredRecord ==
    \A c \in Ctx :
        Ended(c, 302) =>
            /\ Cardinality(User_get(store, Doc(c).sub)) = 1
            /\ user_of_claims(Doc(c)) \in store

\* C8: a step of a callback in flight changes its context's session only when
\* it is the step that ends the callback with the redirect: every callback
\* that ends otherwise leaves the session it found.
C8_FailureKeepsSession ==
    [][\A c \in Ctx :
          (req[c].pc # "idle" /\ cookie'[c] # cookie[c]) => Ended(c, 302)']_vars

\* C8 witness: a context that was logged in ended a callback with an error,
\* the other, anonymous, ended one with 400.
C8_Witness ==
    \E c \in Ctx, d \in Ctx :
        /\ Ended(c, 500) /\ cookie[c] # None
        /\ Ended(d, 400) /\ cookie[d] = None

\* C9: a request whose session holds an id that is not in the user table is
\* answered as an anonymous one (403, no exception), and a request resolves to
\* a user only when the id is in the table.
C9_DanglingSessionIsAnonymous ==
    last.status # 0 =>
        /\ (last.sess # None /\ User_get(store, last.sess) = {})
              => (last.user = None /\ last.status = 403 /\ ~last.ran)
        /\ last.user # None
              => (last.user = last.sess /\ User_get(store, last.user) # {})

\* C9 witness: after a restart on a fresh database a context presented its
\* old session and was answered 403.
C9_Witness ==
    /\ last.status = 403
    /\ last.ctx # None
    /\ last.sess # None
    /\ User_get(store, last.sess) = {}

\* C10: a callback with complete, verified claims for a sub that is not in
\* the table creates the row {sub, name, email, picture} and ends with the
\* session resolving to that row.
C10_FirstLoginCreatesUser ==
    \A c \in Ctx :
        (Ended(c, 302) /\ ~req[c].exists /\ Doc(c).email_verified = JTrue) =>
            LET row == [id |-> Doc(c).sub, name |-> Doc(c).name,
                        email |-> Doc(c).email,
                        profile_pic |-> Doc(c).picture]
            IN /\ User_get(store, Doc(c).sub) = {row}
               /\ cookie[c] = Doc(c).sub
               /\ current_user(store, cookie[c]) = {row}

\* C10 witness: scenario A, the first login of u1 as Ada.
C10_Witness ==
    \E c \in Ctx :
        /\ Ended(c, 302) /\ ~req[c].exists
        /\ req[c].code = CodeOf("u1")
        /\ Doc(c) = ClaimsDoc("u1", JTrue,
                       [name |-> "Ada", email |-> "a@b.com",
                        picture |-> "http://x/p.png"])
        /\ store = {[id |-> "u1", name |-> "Ada", email |-> "a@b.com",
                     profile_pic |-> "http://x/p.png"]}

\* C11: the 400 unverified-email outcome is produced only for a userinfo
\* response that is a claims document (fetched successfully) whose
\* email_verified is absent or not true; a failed userinfo fetch never ends
\* with it.
C11_FetchFailureIsNotUnverified ==
    \A c \in Ctx :
        Ended(c, 400) =>
            /\ Doc(c).kind = "claims"
            /\ Doc(c).email_verified # JTrue

\* A claims document with a claim the handler needs absent or empty.
Malformed(doc) ==
    /\ doc.kind = "claims"
    /\ \E v \in {doc.sub, doc.email, doc.name, doc.picture} : v \in {Absent, ""}

\* C12: with email_verified true, a claims document in which sub, email, name
\* or picture is absent or empty makes the callback fail without creating a
\* user or a session, and no stored row has an empty field.
C12_MalformedClaimsRejected ==
    /\ \A c \in Ctx :
          (Malformed(Doc(c)) /\ Doc(c).email_verified = JTrue)
              => (req[c].pc \in {"verify", "done"} /\ req[c].status # 302)
    /\ \A row \in store :
          "" \notin {row.id, row.name, row.email, row.profile_pic}

\* C13: the step that logs a callback's user in leaves the context's session
\* holding that user's id and nothing else, whatever it held before, and the
\* session resolves to that user.
C13_LoginReplacesSession ==
    [][\A c \in Ctx :
          (req[c].pc = "login_user" /\ req'[c].pc = "done") =>
              /\ cookie'[c] = Doc(c).sub
              /\ current_user(store', cookie'[c]) # {}
              /\ \A row \in current_user(store', cookie'[c]) :
                    row.id = Doc(c).sub]_vars

\* C13 witness: a context whose session held one user (a copy of that cookie
\* was taken, and no logout followed) ended a callback as another user.
C13_Witness ==
    \E c \in Ctx :
        /\ Ended(c, 302)
        /\ captured.ctx = c /\ captured.cred # None /\ ~captured.logged_out
        /\ captured.cred # Doc(c).sub
        /\ cookie[c] = Doc(c).sub

\* C14 as stated: after a request to /logout the context is anonymous with
\* its credential cleared, and the request is never answered with an error or
\* a rejection, also when the context was anonymous already.
C14_LogoutNeverRejected ==
    (last.route = "logout" /\ last.ctx # None) =>
        /\ cookie[last.ctx] = None
        /\ last.status \notin {403, 500}

\* C14 amended: /logout from an authenticated context runs logout_user,
\* clears the credential and redirects; from an anonymous context it is
\* rejected by the gate with 403 without running, and the context stays
\* anonymous with its cookie as it was.
C14_LogoutClearsOrIsRejected ==
    (last.route = "logout" /\ last.ctx # None) =>
        /\ current_user(store, cookie[last.ctx]) = {}
        /\ last.user # None
              => (last.ran /\ last.status = 302 /\ cookie[last.ctx] = None)
        /\ last.user = None
              => (~last.ran /\ last.status = 403 /\ cookie[last.ctx] = last.sess)

\* C14 witness: a context logged out (the copy taken of its cookie is marked)
\* and asked for /logout again, anonymous, and was rejected.
C14_Witness ==
    /\ last.route = "logout"
    /\ last.ctx # None
    /\ captured.ctx = last.ctx /\ captured.logged_out
    /\ last.user = None
    /\ last.status = 403
    /\ cookie[last.ctx] = None

\* C15: every authorization redirect /login sent targets the
\* authorization_endpoint of the discovery document it fetched, with
\* response_type=code, the configured client id, exactly the scopes openid,
\* email and profile, and the deployment's callback URL as redirect_uri; two
\* redirects built from the same document are equal.
C15_AuthorizationRedirect ==
    /\ \A c \in Ctx :
          issued[c] # NoRedirect =>
              /\ issued[c].authorization_endpoint \in AuthorizationEndpoints
              /\ issued[c].uri = issued[c].authorization_endpoint
              /\ issued[c].response_type = "code"
              /\ issued[c].client_id = "client-id"
              /\ Len(issued[c].scope) = 3
              /\ {issued[c].scope[i] : i \in 1..3} = {"openid", "email", "profile"}
              /\ issued[c].redirect_uri = deploy \o "/login/callback"
    /\ \A c \in Ctx, d \in Ctx :
          (issued[c].authorization_endpoint = issued[d].authorization_endpoint)
              => issued[c] = issued[d]

\* C15 witness: on the second origin both contexts were redirected, from
\* different discovery documents.
C15_Witness ==
    /\ deploy = "https://localhost:5000"
    /\ \A c \in Ctx : issued[c] # NoRedirect
    /\ \E c \in Ctx, d \in Ctx :
          issued[c].authorization_endpoint # issued[d].authorization_endpoint

\* C16: a step never removes or changes a stored row, and a request to a
\* protected route leaves the table as it is.
C16_RowsAreNeverChanged ==
    [][/\ store \subseteq store'
       /\ \A u \in Subs :
             User_get(store, u) # {} => User_get(store', u) = User_get(store, u)
       /\ (last' # last /\ last'.status # 0) => store' = store]_vars

\* C16 witness: u1 is stored as Ada after a later login of u1 that carried
\* other claims.
C16_Witness ==
    \E c \in Ctx :
        /\ Ended(c, 302) /\ req[c].exists
        /\ Doc(c).sub = "u1" /\ Doc(c).name = "Ada Lovelace"
        /\ User_get(store, "u1") =
              {[id |-> "u1", name |-> "Ada", email |-> "a@b.com",
                profile_pic |-> "http://x/p.png"]}

\* The claims passed the handler's email_verified branch and subscripts.
Extracted(doc) ==
    /\ doc.kind = "claims"
    /\ doc.email_verified \notin {JFalse, Absent}
    /\ Absent \notin {doc.sub, doc.email, doc.name, doc.picture}

\* C17: a callback holds a userinfo response only after its token exchange
\* gave a token; the table is written only by a callback whose claims passed
\* the email_verified check and the extraction; a session is written only by a
\* callback whose user is in the table; a callback that ended does nothing
\* more.
C17_StepsAreOrdered ==
    /\ [](\A c \in Ctx :
            (req[c].pc \in {"add_token", "verify", "get", "create", "login_user"}
                \/ Doc(c) # NoResponse)
              => req[c].token_response \in {TokenOf(u) : u \in Subs})
    /\ [][store' # store =>
            \E c \in Ctx : /\ req[c].pc = "create"
                           /\ req'[c].pc = "login_user"
                           /\ Extracted(Doc(c))]_vars
    /\ [][\A c \in Ctx :
            cookie'[c] # cookie[c] =>
                /\ req[c].pc = "login_user"
                /\ Extracted(Doc(c))
                /\ User_get(store, Doc(c).sub) # {}]_vars
    /\ [][\A c \in Ctx :
            req[c].pc = "done" => (req'[c] = req[c] \/ req'[c] = Idle)]_vars

\* C17 witness: one callback went through every step and created its user,
\* the other ended at the token exchange.
C17_Witness ==
    \E c \in Ctx, d \in Ctx :
        /\ Ended(c, 302) /\ ~req[c].exists
        /\ Ended(d, 500) /\ req[d].error = "TokenExchangeError"
        /\ Doc(d) = NoResponse

\* C18: a /login request, whether its discovery fetch succeeds or fails,
\* leaves the user table, the sessions, the shared client and the requests in
\* flight as they are.
C18_LoginPersistsNothing ==
    [][last'.route = "login" =>
          (store' = store /\ cookie' = cookie /\ client' = client
              /\ req' = req)]_vars

\* C18 witness: a context that had been redirected and had logged in asked for
\* /login again and the discovery fetch failed.
C18_Witness ==
    /\ last.route = "login"
    /\ last.status = 500
    /\ issued[last.ctx] # NoRedirect
    /\ cookie[last.ctx] # None
    /\ store # {}

\* C19: a callback carrying a code the provider accepts is never refused for
\* want of a redirect issued to its context, and with verified, complete
\* claims it ends with the session of the claims' subject.
C19_CallbackNotBoundToRedirect ==
    \A c \in Ctx :
        (req[c].pc = "done" /\ req[c].code # BadCode) =>
            /\ req[c].error \notin {"MismatchingStateError", "TokenExchangeError"}
            /\ Extracted(Doc(c)) => (req[c].status = 302 /\ cookie[c] = Doc(c).sub)

\* C19 witness: a context that /login never redirected ended a callback
\* logged in, while the other context had been redirected.
C19_Witness ==
    \E c \in Ctx, d \in Ctx :
        /\ issued[c] = NoRedirect
        /\ issued[d] # NoRedirect
        /\ Ended(c, 302)
        /\ cookie[c] = Doc(c).sub

\* C20: the redirect URL a callback sends in its token request equals the
\* redirect_uri of the authorization redirect /login sent its context.
C20_SameRedirectUri ==
    \A c \in Ctx :
        (issued[c] # NoRedirect /\ req[c].redirect_url # None)
            => req[c].redirect_url = issued[c].redirect_uri

\* C20 witness: on the second origin a context redirected by /login?next=queue
\* sent its token request.
C20_Witness ==
    \E c \in Ctx :
        /\ deploy = "https://localhost:5000"
        /\ issued[c].redirect_uri = "https://localhost:5000/login/callback"
        /\ req[c].pc = "parse"
        /\ req[c].redirect_url = "https://localhost:5000/login/callback"
=============================================================================
